---------------------------- MODULE Spec2Model ----------------------------
(***************************************************************************)
(* Route permission core of vue3-element-admin: the permission store       *)
(* (route list, route map, generation flag), the route-map builder, the    *)
(* route normalizer and the navigation guard installed by setupPermission. *)
(*                                                                         *)
(* Paths and URLs are sequences of one-character strings, so that path     *)
(* construction, URL encoding and URL parsing are computed character by    *)
(* character.  The empty sequence stands for the empty string and for an   *)
(* absent (undefined / null) string alike: the code tests both with `!x`.  *)
(***************************************************************************)
EXTENDS Integers, Sequences, FiniteSets, TLC

(***************************************************************************)
(* Strings                                                                 *)
(***************************************************************************)
Empty == << >>
Slash == "/"
Root == <<"/">>
LoginPath == <<"/", "l", "o", "g", "i", "n">>
NotFoundPath == <<"/", "4", "0", "4">>

\* String.prototype.startsWith("/")
startsWithSlash(s) == Len(s) > 0 /\ s[1] = Slash

\* fullPath.replace(/\/+/g, "/"): every run of "/" becomes one "/"
RECURSIVE collapseSlashes(_)
collapseSlashes(s) ==
  IF Len(s) < 2 THEN s
  ELSE IF s[1] = Slash /\ s[2] = Slash THEN collapseSlashes(Tail(s))
  ELSE <<s[1]>> \o collapseSlashes(Tail(s))

(***************************************************************************)
(* Route records.  A node of the route tree is                             *)
(*   [path, name, component, hidden, activeMenu, children]                 *)
(* name = "" is an absent name, component = "" an absent component,        *)
(* hidden is meta.hidden, activeMenu is meta.activeMenu (Empty if absent). *)
(***************************************************************************)
NoName == ""
NoComponent == ""
LayoutRef == "Layout"            \* the sentinel the backend sends
LayoutView == "@/layouts/index"  \* the Layout wrapper it resolves to
NotFoundView == "views/error/404"

Node(path, name, component, hidden, children) ==
  [path |-> path, name |-> name, component |-> component, hidden |-> hidden,
   activeMenu |-> Empty, children |-> children]

\* names that are symbols rather than strings (RouteRecordName = string | symbol)
SymbolNames == {"Symbol(home)"}

(***************************************************************************)
(* buildRouteMap                                                           *)
(***************************************************************************)
\* a faulty path construction that joins an absolute segment to its parent
buildFullPath_JoinsAbsolute(routePath, parentPath) ==
  IF routePath = Empty THEN (IF parentPath # Empty THEN parentPath ELSE Root)
  ELSE IF parentPath = Empty
    THEN (IF startsWithSlash(routePath) THEN routePath ELSE Root \o routePath)
  ELSE collapseSlashes(parentPath \o Root \o routePath)

buildFullPath(routePath, parentPath) ==
  IF routePath = Empty THEN (IF parentPath # Empty THEN parentPath ELSE Root)
  ELSE IF parentPath = Empty
    THEN (IF startsWithSlash(routePath) THEN routePath ELSE Root \o routePath)
  ELSE IF startsWithSlash(routePath) THEN routePath
  ELSE collapseSlashes(parentPath \o Root \o routePath)

\* Map.set: a later key overwrites an earlier one
MapSet(m, k, v) == (k :> v) @@ m
\* Map.get(k) || null
MapGet(m, k, dflt) == IF k \in DOMAIN m THEN m[k] ELSE dflt
EmptyMap == << >>

EmptyRouteMap ==
  [pathToRoute |-> EmptyMap, pathToParentMenu |-> EmptyMap,
   firstAccessibleRoute |-> <<>>, visibleMenuPaths |-> {}]

\* firstAccessibleRoute: <<>> is null, <<r>> is the route r
Null == << >>

\* a faulty traversal that records hidden nodes as visible menu entries
RECURSIVE traverseRouteTree_HiddenVisible(_, _, _, _)
traverseRouteTree_HiddenVisible(routes, parentPath, parentMenuPath, acc) ==
  IF routes = << >> THEN acc
  ELSE
    LET route == Head(routes)
        currentPath == buildFullPath(route.path, parentPath)
        currentMenuPath == IF route.hidden THEN parentMenuPath ELSE currentPath
        a1 == [acc EXCEPT !.pathToRoute = MapSet(@, currentPath, route)]
        a2 == IF parentMenuPath # Empty /\ parentMenuPath # currentPath
                THEN [a1 EXCEPT !.pathToParentMenu = MapSet(@, currentPath, parentMenuPath)]
                ELSE a1
        a3 == IF route.component # NoComponent
                 /\ route.path # Root /\ route.path # Empty
                THEN [a2 EXCEPT !.visibleMenuPaths = @ \cup {currentPath}]
                ELSE a2
        a4 == IF Len(route.children) > 0
                THEN traverseRouteTree_HiddenVisible(route.children, currentPath,
                                                     currentMenuPath, a3)
                ELSE a3
    IN traverseRouteTree_HiddenVisible(Tail(routes), parentPath, parentMenuPath, a4)

\* a faulty traversal in which a hidden node passes its own path down as the
\* menu path
RECURSIVE traverseRouteTree_HiddenIsMenu(_, _, _, _)
traverseRouteTree_HiddenIsMenu(routes, parentPath, parentMenuPath, acc) ==
  IF routes = << >> THEN acc
  ELSE
    LET route == Head(routes)
        currentPath == buildFullPath(route.path, parentPath)
        a1 == [acc EXCEPT !.pathToRoute = MapSet(@, currentPath, route)]
        a2 == IF parentMenuPath # Empty /\ parentMenuPath # currentPath
                THEN [a1 EXCEPT !.pathToParentMenu = MapSet(@, currentPath, parentMenuPath)]
                ELSE a1
        a3 == IF ~route.hidden /\ route.component # NoComponent
                 /\ route.path # Root /\ route.path # Empty
                THEN [a2 EXCEPT !.visibleMenuPaths = @ \cup {currentPath}]
                ELSE a2
        a4 == IF Len(route.children) > 0
                THEN traverseRouteTree_HiddenIsMenu(route.children, currentPath,
                                                    currentPath, a3)
                ELSE a3
    IN traverseRouteTree_HiddenIsMenu(Tail(routes), parentPath, parentMenuPath, a4)

RECURSIVE traverseRouteTree(_, _, _, _)
traverseRouteTree(routes, parentPath, parentMenuPath, acc) ==
  IF routes = << >> THEN acc
  ELSE
    LET route == Head(routes)
        currentPath == buildFullPath(route.path, parentPath)
        currentMenuPath == IF route.hidden THEN parentMenuPath ELSE currentPath
        a1 == [acc EXCEPT !.pathToRoute = MapSet(@, currentPath, route)]
        a2 == IF parentMenuPath # Empty /\ parentMenuPath # currentPath
                THEN [a1 EXCEPT !.pathToParentMenu = MapSet(@, currentPath, parentMenuPath)]
                ELSE a1
        a3 == IF ~route.hidden /\ route.component # NoComponent
                 /\ route.path # Root /\ route.path # Empty
                THEN [a2 EXCEPT !.visibleMenuPaths = @ \cup {currentPath}]
                ELSE a2
        a4 == IF Len(route.children) > 0
                THEN traverseRouteTree(route.children, currentPath, currentMenuPath, a3)
                ELSE a3
    IN traverseRouteTree(Tail(routes), parentPath, parentMenuPath, a4)

\* result: Null or <<[path, name]>>
RECURSIVE findFirstRoute(_, _, _)
findFirstRoute(routes, includeHidden, parentPath) ==
  IF routes = << >> THEN Null
  ELSE
    LET route == Head(routes)
        rest == findFirstRoute(Tail(routes), includeHidden, parentPath)
        currentPath == buildFullPath(route.path, parentPath)
        childRoute == IF Len(route.children) > 0
                        THEN findFirstRoute(route.children, includeHidden, currentPath)
                        ELSE Null
    IN IF ~includeHidden /\ route.hidden THEN rest
       ELSE IF childRoute # Null THEN childRoute
       ELSE IF route.component # NoComponent /\ route.path # Root /\ route.path # Empty
         THEN <<[path |-> currentPath, name |-> route.name]>>
       ELSE rest

findFirstAccessibleRoute(routes) ==
  LET nonHiddenResult == findFirstRoute(routes, FALSE, Empty)
  IN IF nonHiddenResult # Null THEN nonHiddenResult
     ELSE findFirstRoute(routes, TRUE, Empty)

buildRouteMap(routes) ==
  LET acc == traverseRouteTree(routes, Empty, Empty, EmptyRouteMap)
      firstRouteResult == findFirstAccessibleRoute(routes)
  IN IF firstRouteResult # Null /\ firstRouteResult[1].path \in DOMAIN acc.pathToRoute
       THEN [acc EXCEPT !.firstAccessibleRoute = <<acc.pathToRoute[firstRouteResult[1].path]>>]
       ELSE acc

(***************************************************************************)
(* Route normalizer of the store (processRoutes, then parseDynamicRoutes)  *)
(***************************************************************************)
\* keys of import.meta.glob("../../views/**/**.vue"), without prefix and suffix
modules == {"sys/user", "sys/role", "report/detail", "doc/index", "error/404"}

RECURSIVE processRoutes(_, _)
processRoutes(routes, isTopLevel) ==
  [i \in 1..Len(routes) |->
     LET r == routes[i]
     IN [r EXCEPT
           !.component = IF isTopLevel \/ r.component # LayoutRef THEN r.component
                         ELSE NoComponent,
           !.children = IF Len(r.children) > 0 THEN processRoutes(r.children, FALSE)
                        ELSE r.children]]

\* a faulty resolution without the fallback to the 404 view
RECURSIVE parseDynamicRoutes_NoFallback(_)
parseDynamicRoutes_NoFallback(rawRoutes) ==
  [i \in 1..Len(rawRoutes) |->
     LET route == rawRoutes[i]
     IN [route EXCEPT
           !.component = IF route.component = NoComponent THEN NoComponent
                         ELSE IF route.component = LayoutRef THEN LayoutView
                         ELSE IF route.component \in modules
                           THEN "views/" \o route.component
                         ELSE NoComponent,
           !.children = parseDynamicRoutes_NoFallback(route.children)]]

RECURSIVE parseDynamicRoutes(_)
parseDynamicRoutes(rawRoutes) ==
  [i \in 1..Len(rawRoutes) |->
     LET route == rawRoutes[i]
     IN [route EXCEPT
           !.component = IF route.component = NoComponent THEN NoComponent
                         ELSE IF route.component = LayoutRef THEN LayoutView
                         ELSE IF route.component \in modules
                           THEN "views/" \o route.component
                         ELSE NotFoundView,
           !.children = parseDynamicRoutes(route.children)]]

\* the normalizer of the other copy of the store (menu.enum.ts)
RECURSIVE transformRoutes(_, _)
transformRoutes(routes, isTopLevel) ==
  [i \in 1..Len(routes) |->
     LET route == routes[i]
         processedComponent == IF isTopLevel \/ route.component # LayoutRef
                                 THEN route.component ELSE NoComponent
     IN [route EXCEPT
           !.component = IF processedComponent = NoComponent THEN NoComponent
                         ELSE IF processedComponent = LayoutRef THEN LayoutView
                         ELSE IF processedComponent \in modules
                           THEN "views/" \o processedComponent
                         ELSE NotFoundView,
           !.children = IF Len(route.children) > 0
                          THEN transformRoutes(route.children, FALSE)
                          ELSE << >>]]

(***************************************************************************)
(* Static configuration (@/router): the routes known before login.  Both   *)
(* are full pages outside the layout and are kept out of the menu.         *)
(***************************************************************************)
constantRoutes ==
  << Node(LoginPath, "Login", "views/login/index", TRUE, << >>),
     Node(NotFoundPath, "404", NotFoundView, TRUE, << >>) >>

\* setupPermission: const whiteList = ["/login"]
whiteList == {LoginPath}

(***************************************************************************)
(* Menu trees MenuAPI.getRoutes() may answer with (raw RouteVO lists).     *)
(* Route names sent by the backend are strings and differ from the names   *)
(* of the static routes.                                                   *)
(***************************************************************************)
SysPath == <<"/", "s", "y", "s">>
UserSeg == <<"u", "s", "e", "r">>
SysUserPath == SysPath \o Root \o UserSeg
ReportSeg == <<"r", "e", "p">>
DetailSeg == <<"d", "e", "t">>
DetailPath == SysPath \o Root \o ReportSeg \o Root \o DetailSeg
DocPath == <<"/", "d", "o", "c">>
PageSeg == <<"p", "g">>
DashboardPath == <<"/", "d", "a", "s", "h", "b", "o", "a", "r", "d">>

\* /sys (Layout) > user, report (hidden grouping) > detail (hidden page)
MenuSys ==
  << Node(SysPath, "Sys", LayoutRef, FALSE,
       << Node(UserSeg, "User", "sys/user", FALSE, << >>),
          Node(ReportSeg, NoName, LayoutRef, TRUE,
            << Node(DetailSeg, "Detail", "report/detail", TRUE, << >>) >>) >>) >>

\* a menu whose only page has no route name
MenuNameless ==
  << Node(DocPath, NoName, LayoutRef, FALSE,
       << Node(PageSeg, NoName, "doc/index", FALSE, << >>) >>) >>

\* a layout whose page is its index child (empty path segment)
MenuIndex ==
  << Node(DocPath, "Doc", LayoutRef, FALSE,
       << Node(Empty, "DocIndex", "doc/index", FALSE, << >>) >>) >>

\* a top-level route whose path lacks the leading "/": router.addRoute rejects it
MenuBadPath ==
  << Node(UserSeg, "Bad", "sys/user", FALSE, << >>) >>

\* MenuSys with an active-menu override on the hidden page
MenuOverride ==
  << Node(SysPath, "Sys", LayoutRef, FALSE,
       << Node(UserSeg, "User", "sys/user", FALSE, << >>),
          Node(ReportSeg, NoName, LayoutRef, TRUE,
            << [Node(DetailSeg, "Detail", "report/detail", TRUE, << >>)
                  EXCEPT !.activeMenu = SysUserPath] >>) >>) >>

MenuTrees == {MenuSys, MenuNameless, MenuIndex, MenuBadPath, MenuOverride}

\* errors the collaborators fail with
Errors == {"E_network", "E_invalid"}

(***************************************************************************)
(* URLs: encodeURIComponent, and the router's parsing of a string location *)
(***************************************************************************)
\* encodeURIComponent on one character of the alphabet used here; letters and
\* digits are unreserved and stay as they are
encodeChar(c) ==
  CASE c = "/" -> <<"%", "2", "F">>
    [] c = "?" -> <<"%", "3", "F">>
    [] c = "=" -> <<"%", "3", "D">>
    [] c = "&" -> <<"%", "2", "6">>
    [] c = "%" -> <<"%", "2", "5">>
    [] OTHER -> <<c>>

RECURSIVE encodeURIComponent(_)
encodeURIComponent(s) ==
  IF s = Empty THEN Empty ELSE encodeChar(Head(s)) \o encodeURIComponent(Tail(s))

decodeTriple(t) ==
  CASE t = <<"%", "2", "F">> -> "/"
    [] t = <<"%", "3", "F">> -> "?"
    [] t = <<"%", "3", "D">> -> "="
    [] t = <<"%", "2", "6">> -> "&"
    [] t = <<"%", "2", "5">> -> "%"
    [] OTHER -> "%"

\* decodeURIComponent, as the router applies it to a query value
RECURSIVE decode(_)
decode(s) ==
  IF s = Empty THEN Empty
  ELSE IF Head(s) = "%" /\ Len(s) >= 3
    THEN <<decodeTriple(SubSeq(s, 1, 3))>> \o decode(SubSeq(s, 4, Len(s)))
  ELSE <<Head(s)>> \o decode(Tail(s))

\* index of the first occurrence of character c in s, 0 if none
RECURSIVE indexOf(_, _, _)
indexOf(s, c, i) ==
  IF i > Len(s) THEN 0 ELSE IF s[i] = c THEN i ELSE indexOf(s, c, i + 1)

lastIndexOf(s, c) ==
  LET hits == {i \in 1..Len(s) : s[i] = c}
  IN IF hits = {} THEN 0 ELSE CHOOSE i \in hits : \A j \in hits : j <= i

FromKey == <<"f", "r", "o", "m">>
RedirectKey == <<"r", "e", "d", "i", "r", "e", "c", "t">>

NoQuery == [from |-> Empty, redirect |-> Empty]

\* the value of `key` in a search string "k=v" holding one key
queryValue(search, key) ==
  IF Len(search) > Len(key) /\ SubSeq(search, 1, Len(key) + 1) = key \o <<"=">>
    THEN decode(SubSeq(search, Len(key) + 2, Len(search)))
    ELSE Empty

\* parseURL: a string location into [path, query]
parseURL(url) ==
  LET q == indexOf(url, "?", 1)
      path == IF q = 0 THEN url ELSE SubSeq(url, 1, q - 1)
      search == IF q = 0 THEN Empty ELSE SubSeq(url, q + 1, Len(url))
  IN [path |-> path,
      query |-> [from |-> queryValue(search, FromKey),
                 redirect |-> queryValue(search, RedirectKey)]]

\* stringifyQuery: the router leaves "/" in a query value as it is
stringifyQuery(query) ==
  IF query.from # Empty THEN <<"?">> \o FromKey \o <<"=">> \o query.from
  ELSE IF query.redirect # Empty THEN <<"?">> \o RedirectKey \o <<"=">> \o query.redirect
  ELSE Empty

\* RouteLocationNormalized.fullPath
fullPathOf(path, query) == path \o stringifyQuery(query)

(***************************************************************************)
(* The router (vue-router): the registered route records, flattened.       *)
(* A record is [name, path, hidden, activeMenu, anc, depth]: anc holds the *)
(* names of the record and of its ancestors (removeRoute(name) removes the *)
(* record of that name and its descendants), meta is merged down the       *)
(* matched chain.                                                          *)
(***************************************************************************)
\* the router's path of a nested record: an absolute child path stands alone
joinPaths(parentPath, path) ==
  IF parentPath = Empty \/ startsWithSlash(path) THEN path
  ELSE IF path = Empty THEN parentPath
  ELSE collapseSlashes(parentPath \o Root \o path)

RECURSIVE flattenRecords(_, _, _, _, _)
flattenRecords(routes, parentPath, parentActiveMenu, anc, depth) ==
  IF routes = << >> THEN {}
  ELSE
    LET route == Head(routes)
        path == joinPaths(parentPath, route.path)
        activeMenu == IF route.activeMenu # Empty THEN route.activeMenu ELSE parentActiveMenu
        names == IF route.name = NoName THEN anc ELSE anc \cup {route.name}
    IN {[name |-> route.name, path |-> path, hidden |-> route.hidden,
         activeMenu |-> activeMenu, anc |-> names, depth |-> depth]}
       \cup flattenRecords(route.children, path, activeMenu, names, depth + 1)
       \cup flattenRecords(Tail(routes), parentPath, parentActiveMenu, anc, depth)

\* router.removeRoute(name)
removeRoute(records, name) == {r \in records : name \notin r.anc}

\* router.addRoute(route) for a top-level route: a route of the same name is
\* replaced
canAddRoute(route) == startsWithSlash(route.path)

addRoute(records, route) ==
  (IF route.name = NoName THEN records ELSE removeRoute(records, route.name))
    \cup flattenRecords(<<route>>, Empty, Empty, {}, 0)

\* dynamicRoutes.forEach(route => router.addRoute(route)): the routes before
\* the first one the router rejects are registered; ok tells whether all were
RECURSIVE addRoutes(_, _)
addRoutes(records, routes) ==
  IF routes = << >> THEN [ok |-> TRUE, records |-> records]
  ELSE IF ~canAddRoute(Head(routes)) THEN [ok |-> FALSE, records |-> records]
  ELSE addRoutes(addRoute(records, Head(routes)), Tail(routes))

\* the record a path matches: the deepest one of that path
matchOf(records, path) ==
  LET hits == {r \in records : r.path = path}
  IN IF hits = {} THEN Null
     ELSE <<CHOOSE r \in hits : \A o \in hits : o.depth <= r.depth>>

\* RouteLocationNormalized: what the guard reads of `to` and `from`
Location(records, path, query) ==
  LET m == matchOf(records, path)
  IN [path |-> path, query |-> query,
      fullPath |-> fullPathOf(path, query),
      matched |-> m # Null,
      name |-> IF m = Null THEN NoName ELSE m[1].name,
      hidden |-> IF m = Null THEN FALSE ELSE m[1].hidden,
      activeMenu |-> IF m = Null THEN Empty ELSE m[1].activeMenu]

\* START_LOCATION_NORMALIZED
StartLocation ==
  [path |-> Root, query |-> NoQuery, fullPath |-> Root, matched |-> FALSE,
   name |-> NoName, hidden |-> FALSE, activeMenu |-> Empty]

\* a relative path is resolved against the current location
resolveRelativePath(to, fromPath) ==
  IF startsWithSlash(to) THEN to
  ELSE SubSeq(fromPath, 1, lastIndexOf(fromPath, Slash)) \o to

(***************************************************************************)
(* State                                                                   *)
(***************************************************************************)
VARIABLES
  permissionStore,  \* [routes, mixLayoutSideMenus, isDynamicRoutesGenerated, routeMap]
  userStore,        \* [loggedIn, hasRoles]: isLoggedIn(), userInfo.roles.length > 0; AuthSpec adds userInfo
  routerRecords,    \* the records registered in the router
  currentRoute,     \* router.currentRoute
  nav,              \* the navigations in flight, one guard invocation each
  generations,      \* guard invocations that started generateRoutes since the last resetRouter
  lastCall,         \* the latest call made from outside the guard, its arguments and result
  progressStarted   \* NProgress: the bar was started and is not done

vars == <<permissionStore, userStore, routerRecords, currentRoute, nav, generations,
          lastCall, progressStarted>>

\* no call from outside the guard yet
NoCall == [op |-> "none"]

\* how many navigation attempts there are where navigations overlap
MaxNavs == 2
\* generations counts up to this value and stays there
MaxGenerations == 2

(***************************************************************************)
(* Permission store                                                        *)
(***************************************************************************)
InitialStore ==
  [routes |-> << >>, mixLayoutSideMenus |-> << >>,
   isDynamicRoutesGenerated |-> FALSE, routeMap |-> EmptyRouteMap]

\* generateRoutes, MenuAPI.getRoutes() having answered `data`:
\* [store |-> the store afterwards, dynamicRoutes |-> the value returned]
generateRoutesResolved(st, data) ==
  LET processRouteList == processRoutes(data, TRUE)
      dynamicRoutes == parseDynamicRoutes(processRouteList)
      routes == constantRoutes \o dynamicRoutes
  IN [store |-> [st EXCEPT !.routes = routes,
                           !.routeMap = buildRouteMap(routes),
                           !.isDynamicRoutesGenerated = TRUE],
      dynamicRoutes |-> dynamicRoutes]

\* a faulty generateRoutes whose catch block also rebuilds an empty route map
generateRoutesRejected_ClearsMap(st, error) ==
  [store |-> [st EXCEPT !.isDynamicRoutesGenerated = FALSE, !.routeMap = EmptyRouteMap],
   error |-> error]

\* generateRoutes, MenuAPI.getRoutes() having failed with `error`:
\* [store |-> the store afterwards, error |-> the error thrown on]
generateRoutesRejected(st, error) ==
  [store |-> [st EXCEPT !.isDynamicRoutesGenerated = FALSE], error |-> error]

\* routes.value.find((item) => item.path === parentPath)?.children || []
setMixLayoutSideMenus(st, parentPath) ==
  LET hits == {i \in 1..Len(st.routes) : st.routes[i].path = parentPath}
  IN [st EXCEPT !.mixLayoutSideMenus =
        IF hits = {} THEN << >>
        ELSE st.routes[CHOOSE i \in hits : \A j \in hits : i <= j].children]

getFirstAccessibleRoute(st) == st.routeMap.firstAccessibleRoute
getParentMenuByPath(st, path) == MapGet(st.routeMap.pathToParentMenu, path, Empty)

constantRouteNames == {constantRoutes[i].name : i \in 1..Len(constantRoutes)} \ {NoName}

\* resetRouter, its effect on the router: the named top-level routes of the
\* stored list that are not static are removed
RECURSIVE removeDynamicRoutes(_, _)
removeDynamicRoutes(records, routes) ==
  IF routes = << >> THEN records
  ELSE LET route == Head(routes)
       IN removeDynamicRoutes(
            IF route.name # NoName /\ route.name \notin constantRouteNames
              THEN removeRoute(records, route.name) ELSE records,
            Tail(routes))

\* a faulty resetRouter that forgets the side-menu list
resetRouterStore_KeepsSideMenus(st) ==
  [st EXCEPT !.routes = constantRoutes,
             !.isDynamicRoutesGenerated = FALSE,
             !.routeMap = EmptyRouteMap]

\* resetRouter, its effect on the store
resetRouterStore(st) ==
  [st EXCEPT !.routes = constantRoutes,
             !.mixLayoutSideMenus = << >>,
             !.isDynamicRoutesGenerated = FALSE,
             !.routeMap = EmptyRouteMap]

(***************************************************************************)
(* Navigation guard (router.beforeEach of setupPermission)                 *)
(***************************************************************************)
\* what generateRoutes settled with: the routes it returned or the error it
\* threw, and `cause`, the error MenuAPI.getRoutes() failed with
NoResult == [ok |-> FALSE, routes |-> << >>, error |-> "", cause |-> ""]

\* result is kept until the guard has read it
IdleNav ==
  [pc |-> "idle", to |-> StartLocation, from |-> StartLocation,
   log |-> << >>, decisions |-> << >>, result |-> NoResult]

\* the argument of next(...)
Proceed ==
  [kind |-> "proceed", path |-> Empty, name |-> NoName, query |-> NoQuery, replace |-> FALSE]
NextUrl(url) ==
  [kind |-> "url", path |-> url, name |-> NoName, query |-> NoQuery, replace |-> FALSE]
NextPath(path, replace) ==
  [kind |-> "path", path |-> path, name |-> NoName, query |-> NoQuery, replace |-> replace]
NextName(name, replace) ==
  [kind |-> "name", path |-> Empty, name |-> name, query |-> NoQuery, replace |-> replace]
NextLocation(loc, replace) ==
  [kind |-> "location", path |-> loc.path, name |-> loc.name, query |-> loc.query,
   replace |-> replace]

Log(g, event) == [g EXCEPT !.log = Append(@, event)]
CallNext(g, decision) ==
  [g EXCEPT !.log = Append(@, "next"), !.decisions = Append(@, decision)]
Return(g) == [g EXCEPT !.pc = "returned"]

\* NProgress.start() and NProgress.done() among the calls made, in order
RECURSIVE signalProgress(_, _)
signalProgress(started, events) ==
  IF events = << >> THEN started
  ELSE signalProgress(IF Head(events) = "NProgress.start" THEN TRUE
                      ELSE IF Head(events) = "NProgress.done" THEN FALSE
                      ELSE started,
                      Tail(events))

\* the calls the guard made in the step from g to h
newEvents(g, h) == SubSeq(h.log, Len(g.log) + 1, Len(h.log))

isStringName(name) == name # NoName /\ name \notin SymbolNames

\* a faulty root redirect that lacks the check of lines 22-25
handleRootPathRedirect_NoLoopCheck(st) ==
  LET firstAccessibleRoute == getFirstAccessibleRoute(st)
  IN IF firstAccessibleRoute = Null THEN Null
     ELSE IF isStringName(firstAccessibleRoute[1].name)
       THEN <<NextName(firstAccessibleRoute[1].name, TRUE)>>
     ELSE <<NextPath(firstAccessibleRoute[1].path, TRUE)>>

\* Null, or <<the redirect>>
handleRootPathRedirect(st) ==
  LET firstAccessibleRoute == getFirstAccessibleRoute(st)
  IN IF firstAccessibleRoute = Null THEN Null
     ELSE IF firstAccessibleRoute[1].path = Root \/ firstAccessibleRoute[1].path = Empty
       THEN Null
     ELSE IF isStringName(firstAccessibleRoute[1].name)
       THEN <<NextName(firstAccessibleRoute[1].name, TRUE)>>
     ELSE <<NextPath(firstAccessibleRoute[1].path, TRUE)>>

\* a faulty lookup that prefers the active-menu override to the from value
getAutoFromPath_ActiveMenuFirst(from, st) ==
  IF from.path = Empty \/ from.path = Root \/ from.path = LoginPath THEN Empty
  ELSE IF from.hidden
    THEN IF from.activeMenu # Empty THEN from.activeMenu
         ELSE IF from.query.from # Empty THEN from.query.from
         ELSE getParentMenuByPath(st, from.path)
  ELSE from.path

\* Empty is null
getAutoFromPath(from, st) ==
  IF from.path = Empty \/ from.path = Root \/ from.path = LoginPath THEN Empty
  ELSE IF from.hidden
    THEN IF from.query.from # Empty THEN from.query.from
         ELSE IF from.activeMenu # Empty THEN from.activeMenu
         ELSE getParentMenuByPath(st, from.path)
  ELSE from.path

\* a faulty version that lacks the check of lines 48-50
handleHiddenPageFrom_AnyPage(to, from, st) ==
  IF to.query.from # Empty THEN to
  ELSE IF to.activeMenu # Empty THEN to
  ELSE LET fromPath == getAutoFromPath(from, st)
       IN IF fromPath = Empty THEN to
          ELSE [to EXCEPT !.query = [@ EXCEPT !.from = fromPath]]

\* the location returned is `to` itself, or a copy whose query differs
handleHiddenPageFrom(to, from, st) ==
  IF ~to.hidden THEN to
  ELSE IF to.query.from # Empty THEN to
  ELSE IF to.activeMenu # Empty THEN to
  ELSE LET fromPath == getAutoFromPath(from, st)
       IN IF fromPath = Empty THEN to
          ELSE [to EXCEPT !.query = [@ EXCEPT !.from = fromPath]]

\* a faulty guard that lacks the not-found check of lines 174-177
guardChecks_NoNotFound(g, st) ==
  IF g.to.path = Root
    THEN LET redirectResult == handleRootPathRedirect(st)
         IN IF redirectResult # Null
              THEN Return(CallNext(g, redirectResult[1]))
              ELSE Return(CallNext(g, NextPath(NotFoundPath, TRUE)))
  ELSE LET enhancedTo == handleHiddenPageFrom(g.to, g.from, st)
       IN IF enhancedTo # g.to
            THEN Return(CallNext(g, NextLocation(enhancedTo, FALSE)))
            ELSE Return(CallNext(g, Proceed))

\* lines 161-190: the checks made once the dynamic routes exist
guardChecks(g, st) ==
  IF g.to.path = Root
    THEN LET redirectResult == handleRootPathRedirect(st)
         IN IF redirectResult # Null
              THEN Return(CallNext(g, redirectResult[1]))
              ELSE Return(CallNext(g, NextPath(NotFoundPath, TRUE)))
  ELSE IF ~g.to.matched
    THEN Return(CallNext(g, NextUrl(NotFoundPath)))
  ELSE LET enhancedTo == handleHiddenPageFrom(g.to, g.from, st)
       IN IF enhancedTo # g.to
            THEN Return(CallNext(g, NextLocation(enhancedTo, FALSE)))
            ELSE Return(CallNext(g, Proceed))

\* a faulty guard that lacks the re-dispatch of lines 155-158
guardAfterAddRoutes_NoRedispatch(g, st) ==
  guardChecks([Log(g, "addRoute") EXCEPT !.result = NoResult], st)

\* lines 154-159, then the checks: after the dynamic routes were registered
guardAfterAddRoutes(g, st) ==
  LET g1 == [Log(g, "addRoute") EXCEPT !.result = NoResult]
  IN IF g1.to.path = Root \/ ~g1.to.matched
       THEN Return(CallNext(g1, NextLocation(g1.to, TRUE)))
       ELSE guardChecks(g1, st)

\* the catch block up to its await: lines 191-195
guardCatch(g) ==
  [Log(g, "resetAllState") EXCEPT !.pc = "resetAllState", !.result = NoResult]

\* a faulty catch block that ends without a decision
guardCatchEnd_NoNext(g) ==
  Return(Log(g, "NProgress.done"))

\* a faulty catch block that does not end the progress bar
guardCatchEnd_NoDone(g) ==
  Return(CallNext(g, NextUrl(LoginPath)))

\* lines 199-200
guardCatchEnd(g) ==
  Return(Log(CallNext(g, NextUrl(LoginPath)), "NProgress.done"))

\* the call permissionStore.generateRoutes(), which awaits MenuAPI.getRoutes()
guardCallGenerateRoutes(g) ==
  [Log(g, "generateRoutes") EXCEPT !.pc = "getRoutes"]

countUp(n) == IF n < MaxGenerations THEN n + 1 ELSE n

\* a faulty redirect that carries the destination unencoded
loginRedirect_Unencoded(to) ==
  LoginPath \o <<"?">> \o RedirectKey \o <<"=">> \o to.fullPath

\* `/login?redirect=${encodeURIComponent(to.fullPath)}`
loginRedirect(to) ==
  LoginPath \o <<"?">> \o RedirectKey \o <<"=">> \o encodeURIComponent(to.fullPath)

\* lines 116-149: from the start of the guard to its first await or its return
guardEnter(g, us, st) ==
  LET g0 == Log(g, "NProgress.start")
  IN IF ~us.loggedIn
       THEN IF g0.to.path \in whiteList
              THEN Return(CallNext(g0, Proceed))
              ELSE Return(Log(CallNext(g0, NextUrl(loginRedirect(g0.to))),
                              "NProgress.done"))
     ELSE IF g0.to.path = LoginPath
       THEN Return(CallNext(g0, NextPath(Root, FALSE)))
     ELSE IF ~st.isDynamicRoutesGenerated
       THEN IF ~us.hasRoles
              THEN [Log(g0, "getUserInfo") EXCEPT !.pc = "getUserInfo"]
              ELSE guardCallGenerateRoutes(g0)
     ELSE guardChecks(g0, st)

(***************************************************************************)
(* Actions                                                                 *)
(***************************************************************************)
InitWith(navs, loggedIn) ==
  /\ permissionStore = InitialStore
  /\ userStore = [loggedIn |-> loggedIn, hasRoles |-> FALSE]
  /\ routerRecords = flattenRecords(constantRoutes, Empty, Empty, {}, 0)
  /\ currentRoute = StartLocation
  /\ nav = [n \in navs |-> IdleNav]
  /\ generations = 0
  /\ lastCall = NoCall
  /\ progressStarted = FALSE

\* one navigation at a time
Init == InitWith({1}, FALSE)

\* what the user may navigate to
Destinations == {Root, LoginPath, DashboardPath, SysUserPath, DetailPath}

\* router.push(path): the router resolves the destination and calls the guard
Push(n, destinations) ==
  /\ nav[n].pc = "idle"
  /\ \E path \in destinations :
       nav' = [nav EXCEPT ![n] =
                 [IdleNav EXCEPT !.pc = "pending",
                                 !.to = Location(routerRecords, path, NoQuery),
                                 !.from = currentRoute]]
  /\ UNCHANGED <<permissionStore, userStore, routerRecords, currentRoute, generations>>
  /\ UNCHANGED <<lastCall, progressStarted>>

\* the guard runs to its first await or to its return
BeforeEach(n) ==
  /\ nav[n].pc = "pending"
  /\ LET g == guardEnter(nav[n], userStore, permissionStore)
     IN /\ nav' = [nav EXCEPT ![n] = g]
        /\ generations' = IF g.pc = "getRoutes" THEN countUp(generations) ELSE generations
  /\ UNCHANGED <<permissionStore, userStore, routerRecords, currentRoute>>
  /\ progressStarted' = signalProgress(progressStarted, newEvents(nav[n], nav'[n]))
  /\ UNCHANGED lastCall

\* await userStore.getUserInfo() settles
GetUserInfoSettles(n) ==
  /\ nav[n].pc = "getUserInfo"
  /\ \/ /\ userStore' = [userStore EXCEPT !.hasRoles = TRUE]
        /\ nav' = [nav EXCEPT ![n] = guardCallGenerateRoutes(@)]
        /\ generations' = countUp(generations)
     \/ /\ nav' = [nav EXCEPT ![n] = guardCatch(@)]
        /\ UNCHANGED <<userStore, generations>>
  /\ UNCHANGED <<permissionStore, routerRecords, currentRoute>>
  /\ progressStarted' = signalProgress(progressStarted, newEvents(nav[n], nav'[n]))
  /\ UNCHANGED lastCall

\* await MenuAPI.getRoutes() inside generateRoutes settles, generateRoutes ends
GetRoutesSettles(n, menuTrees) ==
  /\ nav[n].pc = "getRoutes"
  /\ \/ \E data \in menuTrees :
          LET r == generateRoutesResolved(permissionStore, data)
          IN /\ permissionStore' = r.store
             /\ nav' = [nav EXCEPT ![n].pc = "generated",
                                   ![n].result = [ok |-> TRUE, routes |-> r.dynamicRoutes,
                                                  error |-> "", cause |-> ""]]
     \/ \E e \in Errors :
          LET r == generateRoutesRejected(permissionStore, e)
          IN /\ permissionStore' = r.store
             /\ nav' = [nav EXCEPT ![n].pc = "generated",
                                   ![n].result = [ok |-> FALSE, routes |-> << >>,
                                                  error |-> r.error, cause |-> e]]
  /\ UNCHANGED <<userStore, routerRecords, currentRoute, generations>>
  /\ progressStarted' = signalProgress(progressStarted, newEvents(nav[n], nav'[n]))
  /\ UNCHANGED lastCall

\* the guard resumes after await permissionStore.generateRoutes()
AfterGenerateRoutes(n) ==
  /\ nav[n].pc = "generated"
  /\ IF ~nav[n].result.ok
       THEN /\ nav' = [nav EXCEPT ![n] = guardCatch(@)]
            /\ UNCHANGED routerRecords
       ELSE LET added == addRoutes(routerRecords, nav[n].result.routes)
            IN /\ routerRecords' = added.records
               /\ nav' = [nav EXCEPT ![n] =
                            IF added.ok
                              THEN guardAfterAddRoutes(@, permissionStore)
                              ELSE guardCatch(Log(@, "addRoute"))]
  /\ UNCHANGED <<permissionStore, userStore, currentRoute, generations>>
  /\ progressStarted' = signalProgress(progressStarted, newEvents(nav[n], nav'[n]))
  /\ UNCHANGED lastCall

\* permissionStore.resetRouter()
ResetRouter ==
  /\ routerRecords' = removeDynamicRoutes(routerRecords, permissionStore.routes)
  /\ permissionStore' = resetRouterStore(permissionStore)
  /\ generations' = 0

\* userStore.resetAllState(): the session and the permission store are cleared
ResetAllState ==
  /\ userStore' = [loggedIn |-> FALSE, hasRoles |-> FALSE]
  /\ ResetRouter

\* await useUserStore().resetAllState() in the catch block settles
ResetAllStateSettles(n) ==
  /\ nav[n].pc = "resetAllState"
  /\ \/ ResetAllState
     \/ UNCHANGED <<permissionStore, userStore, routerRecords, generations>>
  /\ nav' = [nav EXCEPT ![n] = guardCatchEnd(@)]
  /\ UNCHANGED currentRoute
  /\ progressStarted' = signalProgress(progressStarted, newEvents(nav[n], nav'[n]))
  /\ UNCHANGED lastCall

\* what the router makes of the location the guard redirected to: Null if the
\* location names a route that is not registered
resolve(records, decision, current) ==
  LET byName == {r \in records : r.name = decision.name /\ decision.name # NoName}
  IN IF decision.kind = "url"
       THEN LET u == parseURL(decision.path)
            IN <<Location(records, resolveRelativePath(u.path, current.path), u.query)>>
     ELSE IF decision.kind = "name" /\ byName = {} THEN Null
     ELSE IF byName # {}
       THEN <<Location(records, (CHOOSE r \in byName : TRUE).path, decision.query)>>
     ELSE <<Location(records, resolveRelativePath(decision.path, current.path),
                     decision.query)>>

\* router.afterEach: lines 205-207
afterEach(started) == signalProgress(started, <<"NProgress.done">>)

\* the router acts on the guard's decision: the navigation is confirmed, or
\* the guard is called again for the location redirected to; `final` is
\* "idle" where the slot takes a further navigation, "done" where it does not
Settle(n, final) ==
  /\ nav[n].pc = "returned"
  /\ LET decision == nav[n].decisions[Len(nav[n].decisions)]
         target == resolve(routerRecords, decision, currentRoute)
     IN IF decision.kind = "proceed"
          THEN /\ currentRoute' = nav[n].to
               /\ nav' = [nav EXCEPT ![n] = [IdleNav EXCEPT !.pc = final]]
               /\ progressStarted' = afterEach(progressStarted)
        ELSE IF target = Null
          THEN /\ nav' = [nav EXCEPT ![n] = [IdleNav EXCEPT !.pc = final]]
               /\ UNCHANGED <<currentRoute, progressStarted>>
        ELSE /\ nav' = [nav EXCEPT ![n] =
                          [IdleNav EXCEPT !.pc = "pending", !.to = target[1],
                                          !.from = currentRoute]]
             /\ UNCHANGED <<currentRoute, progressStarted>>
  /\ UNCHANGED <<permissionStore, userStore, routerRecords, generations>>
  /\ UNCHANGED lastCall

\* the user logs in
Login ==
  /\ ~userStore.loggedIn
  /\ userStore' = [userStore EXCEPT !.loggedIn = TRUE]
  /\ UNCHANGED <<permissionStore, routerRecords, currentRoute, nav, generations>>
  /\ UNCHANGED <<lastCall, progressStarted>>

\* the user logs out
Logout ==
  /\ userStore.loggedIn
  /\ ResetAllState
  /\ UNCHANGED <<currentRoute, nav>>
  /\ UNCHANGED <<lastCall, progressStarted>>

\* the layout picks the side menus of a top-level menu
SetMixLayoutSideMenus ==
  /\ \E parentPath \in {SysPath, Root} :
       permissionStore' = setMixLayoutSideMenus(permissionStore, parentPath)
  /\ permissionStore' # permissionStore
  /\ UNCHANGED <<userStore, routerRecords, currentRoute, nav, generations>>
  /\ UNCHANGED <<lastCall, progressStarted>>

Next ==
  \/ Push(1, Destinations)
  \/ BeforeEach(1)
  \/ GetUserInfoSettles(1)
  \/ GetRoutesSettles(1, MenuTrees)
  \/ AfterGenerateRoutes(1)
  \/ ResetAllStateSettles(1)
  \/ Settle(1, "idle")
  \/ Login
  \/ Logout
  \/ SetMixLayoutSideMenus

Spec == Init /\ [][Next]_vars

(***************************************************************************)
(* Overlapping navigations: MaxNavs navigation attempts, whose guard        *)
(* invocations interleave at their await points.                           *)
(***************************************************************************)
\* the session token is kept across page loads: the application may start logged in
RaceInit == InitWith(1..MaxNavs, TRUE)

RaceDestinations == {Root, SysUserPath}
RaceMenuTrees == {MenuSys, MenuIndex}

RaceNext ==
  \/ \E n \in DOMAIN nav : Push(n, RaceDestinations)
  \/ \E n \in DOMAIN nav : BeforeEach(n)
  \/ \E n \in DOMAIN nav : GetUserInfoSettles(n)
  \/ \E n \in DOMAIN nav : GetRoutesSettles(n, RaceMenuTrees)
  \/ \E n \in DOMAIN nav : AfterGenerateRoutes(n)
  \/ \E n \in DOMAIN nav : ResetAllStateSettles(n)
  \/ \E n \in DOMAIN nav : Settle(n, "done")
  \/ SetMixLayoutSideMenus

RaceSpec == RaceInit /\ [][RaceNext]_vars

(***************************************************************************)
(* One navigation at a time in a session that starts logged in and that    *)
(* the user leaves alone.  The event loop runs every continuation that is  *)
(* ready: a guard whose await has settled resumes, and the router acts on  *)
(* the decision of a guard that has returned.                              *)
(***************************************************************************)
SessionInit == InitWith({1}, TRUE)

GuardStep ==
  \/ BeforeEach(1)
  \/ GetUserInfoSettles(1)
  \/ GetRoutesSettles(1, MenuTrees)
  \/ AfterGenerateRoutes(1)
  \/ ResetAllStateSettles(1)
  \/ Settle(1, "idle")

SessionNext ==
  \/ Push(1, Destinations)
  \/ GuardStep

SessionSpec == SessionInit /\ [][SessionNext]_vars /\ WF_vars(GuardStep)
(***************************************************************************)
(* The permission store called directly, with the menu trees the backend   *)
(* may send: up to two top-level menus, the first with up to two children  *)
(* and a grandchild.  Segments are relative, absolute or empty; component  *)
(* references are absent, the Layout sentinel, a view of the registry or a  *)
(* view the registry lacks.                                                *)
(***************************************************************************)
TopP == <<"/", "p">>
TopQ == <<"/", "q">>
SegA == <<"a">>
SegB == <<"b">>
SegC == <<"c">>
AbsX == <<"/", "x">>
DoubleSeg == <<"a", "/", "/", "b">>
MissingView == "missing/view"
ComponentRefs == {NoComponent, LayoutRef, "sys/user", MissingView}

GrandChildren == {Node(SegC, NoName, "sys/user", h, << >>) : h \in BOOLEAN}
GrandChildLists == {<< >>} \cup {<<g>> : g \in GrandChildren}
Children ==
  {Node(p, NoName, c, h, gs) :
     p \in {SegA, Empty, AbsX}, c \in ComponentRefs, h \in BOOLEAN, gs \in GrandChildLists}
SecondChildren == {Node(SegB, NoName, "sys/user", h, << >>) : h \in BOOLEAN}
ChildLists ==
  {<< >>} \cup {<<c>> : c \in Children}
          \cup {<<c, d>> : c \in Children, d \in SecondChildren}
FirstTops ==
  {Node(TopP, NoName, c, h, cs) : c \in ComponentRefs, h \in BOOLEAN, cs \in ChildLists}
SecondTops ==
  {Node(TopQ, NoName, "sys/user", h, << >>) : h \in BOOLEAN}
    \cup {Node(TopQ, NoName, NoComponent, TRUE,
               <<Node(SegB, NoName, "sys/user", FALSE, << >>)>>),
          Node(DoubleSeg, NoName, "sys/user", FALSE, << >>),
          Node(TopP, NoName, "sys/user", FALSE, << >>)}
RawTrees ==
  {<< >>} \cup {<<t>> : t \in FirstTops}
          \cup {<<t, u>> : t \in FirstTops, u \in SecondTops}

\* generateRoutes() resolves; it is called while the flag is false
\* (permission.ts line 144)
StoreGenerateRoutes ==
  /\ ~permissionStore.isDynamicRoutesGenerated
  /\ \E data \in RawTrees :
       /\ permissionStore' = generateRoutesResolved(permissionStore, data).store
       /\ lastCall' = [op |-> "generateRoutes", data |-> data]
  /\ UNCHANGED <<userStore, routerRecords, currentRoute, nav, generations,
               progressStarted>>

\* generateRoutes() rejects
StoreGenerateRoutesFails ==
  /\ ~permissionStore.isDynamicRoutesGenerated
  /\ \E e \in Errors :
       /\ permissionStore' = generateRoutesRejected(permissionStore, e).store
       /\ lastCall' = [op |-> "generateRoutes", error |-> e]
  /\ UNCHANGED <<userStore, routerRecords, currentRoute, nav, generations,
               progressStarted>>

\* resetRouter()
StoreResetRouter ==
  /\ ResetRouter
  /\ lastCall' = [op |-> "resetRouter"]
  /\ UNCHANGED <<userStore, currentRoute, nav, progressStarted>>

StoreNext ==
  \/ StoreGenerateRoutes
  \/ StoreGenerateRoutesFails
  \/ StoreResetRouter

StoreSpec == Init /\ [][StoreNext]_vars

(***************************************************************************)
(* hasAuth, called by buttons and directives with the user info the user   *)
(* store holds.  roles and perms are arrays read with includes: sets.      *)
(***************************************************************************)
\* ROLE_ROOT of @/constants
ROLE_ROOT == "ROOT"
Roles == {ROLE_ROOT, "ADMIN", "GUEST"}
Perms == {"user:add", "user:delete"}
AuthTokens == Roles \cup Perms

\* value: a string, or an array of strings
AuthString(token) == [isString |-> TRUE, token |-> token, tokens |-> << >>]
AuthArray(tokens) == [isString |-> FALSE, token |-> "", tokens |-> tokens]
AuthValues ==
  {AuthString(t) : t \in AuthTokens}
    \cup {AuthArray(<< >>)}
    \cup {AuthArray(<<t>>) : t \in AuthTokens}
    \cup {AuthArray(<<t, u>>) : t \in AuthTokens, u \in AuthTokens}
AuthTypes == {"button", "role"}

\* a faulty hasAuth that demands every token of a collection
hasAuth_Every(userInfo, value, type) ==
  IF type = "button" /\ ROLE_ROOT \in userInfo.roles THEN TRUE
  ELSE LET auths == IF type = "button" THEN userInfo.perms ELSE userInfo.roles
       IN IF value.isString THEN value.token \in auths
          ELSE \A i \in 1..Len(value.tokens) : value.tokens[i] \in auths

hasAuth(userInfo, value, type) ==
  IF type = "button" /\ ROLE_ROOT \in userInfo.roles THEN TRUE
  ELSE LET auths == IF type = "button" THEN userInfo.perms ELSE userInfo.roles
       IN IF value.isString THEN value.token \in auths
          ELSE \E i \in 1..Len(value.tokens) : value.tokens[i] \in auths

\* the user info was loaded at login: the user store holds roles and perms
AuthInit ==
  /\ permissionStore = InitialStore
  /\ \E roles \in SUBSET Roles, perms \in SUBSET Perms :
       userStore = [loggedIn |-> TRUE, hasRoles |-> roles # {},
                    userInfo |-> [roles |-> roles, perms |-> perms]]
  /\ routerRecords = flattenRecords(constantRoutes, Empty, Empty, {}, 0)
  /\ currentRoute = StartLocation
  /\ nav = [n \in {1} |-> IdleNav]
  /\ generations = 0
  /\ lastCall = NoCall
  /\ progressStarted = FALSE

\* hasAuth(value, type)
HasAuth ==
  /\ \E value \in AuthValues, type \in AuthTypes :
       lastCall' = [op |-> "hasAuth", value |-> value, type |-> type,
                    result |-> hasAuth(userStore.userInfo, value, type)]
  /\ UNCHANGED <<permissionStore, userStore, routerRecords, currentRoute, nav, generations,
               progressStarted>>

AuthNext == HasAuth

AuthSpec == AuthInit /\ [][AuthNext]_vars

(***************************************************************************)
(* transformRoutes and the params of meta (menu.enum.ts).  A JavaScript    *)
(* value is a string, an object or undefined; an object is the sequence of *)
(* its own properties in insertion order, which is the order Object.keys   *)
(* returns.  Property names are sequences of characters.                   *)
(***************************************************************************)
Str(s) == [kind |-> "string", str |-> s, props |-> << >>]
Obj(props) == [kind |-> "object", str |-> "", props |-> props]
Undefined == [kind |-> "undefined", str |-> "", props |-> << >>]

MetaPrefix == <<"m", "e", "t", "a", "_">>
ParamsKey == <<"p", "a", "r", "a", "m", "s">>
TitleKey == <<"t", "i", "t", "l", "e">>
IdKey == <<"i", "d">>

\* key.startsWith(prefix)
startsWith(key, prefix) ==
  Len(key) >= Len(prefix) /\ SubSeq(key, 1, Len(prefix)) = prefix

\* key.replace(pattern, ""): the first occurrence of pattern is removed
RECURSIVE replaceWithEmpty(_, _)
replaceWithEmpty(key, pattern) ==
  IF Len(key) < Len(pattern) THEN key
  ELSE IF startsWith(key, pattern) THEN SubSeq(key, Len(pattern) + 1, Len(key))
  ELSE <<Head(key)>> \o replaceWithEmpty(Tail(key), pattern)

hasOwn(props, key) == \E i \in 1..Len(props) : props[i].key = key

\* value[key]: a string has no property of these names
getProp(value, key) ==
  IF value.kind = "object" /\ hasOwn(value.props, key)
    THEN value.props[CHOOSE i \in 1..Len(value.props) : value.props[i].key = key].value
    ELSE Undefined

\* object[key] = value
setProp(props, key, value) ==
  IF hasOwn(props, key)
    THEN [i \in 1..Len(props) |->
            IF props[i].key = key THEN [key |-> key, value |-> value] ELSE props[i]]
    ELSE Append(props, [key |-> key, value |-> value])

\* delete object[key]
deleteProp(props, key) ==
  LET keep(p) == p.key # key IN SelectSeq(props, keep)

\* Object.keys(object)
objectKeys(props) == [i \in 1..Len(props) |-> props[i].key]

\* if (value)
truthy(value) ==
  \/ value.kind = "object"
  \/ value.kind = "string" /\ value.str # ""

\* the loop over the keys of meta.params: meta is the object the properties
\* are written to, and meta.params is read from it again at every access
RECURSIVE promoteMetaParams(_, _)
promoteMetaParams(meta, keys) ==
  IF keys = << >> THEN meta
  ELSE LET key == Head(keys)
           assigned == setProp(meta, replaceWithEmpty(key, MetaPrefix),
                               getProp(getProp(Obj(meta), ParamsKey), key))
           params == getProp(Obj(assigned), ParamsKey)
           deleted == IF params.kind = "object"
                        THEN setProp(assigned, ParamsKey, Obj(deleteProp(params.props, key)))
                        ELSE assigned
       IN IF startsWith(key, MetaPrefix)
            THEN promoteMetaParams(deleted, Tail(keys))
            ELSE promoteMetaParams(meta, Tail(keys))

\* what transformRoutes does with the meta of one descriptor.  The
\* normalized route is a shallow copy { ...args }: its meta is the object
\* the raw descriptor holds, so both see what the loop wrote.
transformMeta(meta) ==
  LET params == getProp(meta, ParamsKey)
      after == IF truthy(params)
                 THEN Obj(promoteMetaParams(meta.props, objectKeys(params.props)))
                 ELSE meta
  IN [normalized |-> after, raw |-> after]

\* the params the backend may send: up to three keys, in any order
ParamKeys == {MetaPrefix \o TitleKey, MetaPrefix \o ParamsKey, IdKey}
ParamValues == {Str("X"), Str("Y")}
RawParams ==
  {<< >>}
    \cup {<<[key |-> k, value |-> v]>> : k \in ParamKeys, v \in ParamValues}
    \cup {<<[key |-> k, value |-> v], [key |-> l, value |-> w]>> :
            k \in ParamKeys, l \in ParamKeys, v \in ParamValues, w \in ParamValues}
    \cup {<<[key |-> k, value |-> v], [key |-> l, value |-> w], [key |-> m, value |-> x]>> :
            k \in ParamKeys, l \in ParamKeys, m \in ParamKeys,
            v \in ParamValues, w \in ParamValues, x \in ParamValues}
distinctKeys(props) ==
  \A i \in 1..Len(props), j \in 1..Len(props) : props[i].key = props[j].key => i = j
\* meta: absent, or an object with or without a title and with or without params
RawMetas ==
  {Undefined}
    \cup {Obj(t \o p) :
            t \in {<< >>, <<[key |-> TitleKey, value |-> Str("T")]>>},
            p \in {<< >>} \cup {<<[key |-> ParamsKey, value |-> Obj(ps)]>> :
                                  ps \in {r \in RawParams : distinctKeys(r)}}}
\* the descriptors the metas belong to
MetaRoutes == {Node(TopP, NoName, c, FALSE, << >>) : c \in {LayoutRef, "sys/user"}}

\* transformRoutes([route]) for a descriptor with this meta
TransformRoutes ==
  /\ \E route \in MetaRoutes, meta \in RawMetas :
       lastCall' = [op |-> "transformRoutes", route |-> route, meta |-> meta,
                    result |-> transformRoutes(<<route>>, TRUE),
                    metas |-> transformMeta(meta)]
  /\ UNCHANGED <<permissionStore, userStore, routerRecords, currentRoute, nav, generations,
               progressStarted>>

MetaNext == TransformRoutes

MetaSpec == Init /\ [][MetaNext]_vars

(***************************************************************************)
(* getAutoFromPath, applied to the locations the router may hand to the    *)
(* guard as `from`, with the route map of the menu trees.                  *)
(***************************************************************************)
FromLocation(path, hidden, from, activeMenu) ==
  LET query == [NoQuery EXCEPT !.from = from]
  IN [path |-> path, query |-> query, fullPath |-> fullPathOf(path, query),
      matched |-> TRUE, name |-> NoName, hidden |-> hidden, activeMenu |-> activeMenu]

FromLocations ==
  {FromLocation(path, hidden, from, activeMenu) :
     path \in {Empty, Root, LoginPath, SysUserPath, DetailPath, DashboardPath},
     hidden \in BOOLEAN,
     from \in {Empty, SysUserPath},
     activeMenu \in {Empty, DocPath}}

\* generateRoutes() resolves with one of the menu trees
FromGenerateRoutes ==
  /\ ~permissionStore.isDynamicRoutesGenerated
  /\ \E data \in MenuTrees :
       /\ permissionStore' = generateRoutesResolved(permissionStore, data).store
       /\ lastCall' = [op |-> "generateRoutes", data |-> data]
  /\ UNCHANGED <<userStore, routerRecords, currentRoute, nav, generations,
               progressStarted>>

\* getAutoFromPath(from, permissionStore)
GetAutoFromPath ==
  /\ \E from \in FromLocations :
       lastCall' = [op |-> "getAutoFromPath", from |-> from,
                    result |-> getAutoFromPath(from, permissionStore)]
  /\ UNCHANGED <<permissionStore, userStore, routerRecords, currentRoute, nav, generations,
               progressStarted>>

FromNext ==
  \/ FromGenerateRoutes
  \/ GetAutoFromPath

FromSpec == Init /\ [][FromNext]_vars

(***************************************************************************)
(* Properties                                                              *)
(***************************************************************************)
\* the step in which guard invocation n runs from its start to its first
\* await or its return
Enters(n) == nav[n].pc = "pending" /\ nav'[n].pc # "pending"
\* the step in which guard invocation n returns
Returns(n) == nav[n].pc # "returned" /\ nav'[n].pc = "returned"

DashboardRedirect ==
  <<"/", "l", "o", "g", "i", "n", "?", "r", "e", "d", "i", "r", "e", "c", "t", "=",
    "%", "2", "F", "d", "a", "s", "h", "b", "o", "a", "r", "d">>

\* C1: a guard invocation that finds the session not logged in lets a
\* destination on the allow-list proceed unchanged and redirects any other
\* one to /login?redirect=<URL-encoded full path>, from which the router
\* recovers the full path; /dashboard gives /login?redirect=%2Fdashboard.
C1_UnauthenticatedRedirect ==
  [][\A n \in DOMAIN nav :
       (Enters(n) /\ ~userStore.loggedIn) =>
         LET to == nav[n].to
             d == nav'[n].decisions
         IN /\ nav'[n].pc = "returned"
            /\ Len(d) = 1
            /\ to.path \in whiteList => d[1] = Proceed
            /\ to.path \notin whiteList =>
                 /\ d[1].kind = "url"
                 /\ SubSeq(d[1].path, 1, Len(LoginPath) + 10)
                      = LoginPath \o <<"?">> \o RedirectKey \o <<"=">>
                 /\ parseURL(d[1].path) =
                      [path |-> LoginPath,
                       query |-> [from |-> Empty, redirect |-> to.fullPath]]
                 /\ \A i \in (Len(LoginPath) + 2)..Len(d[1].path) :
                      d[1].path[i] \notin {"/", "?", "&"}
                 /\ to.fullPath = DashboardPath => d[1].path = DashboardRedirect
    ]_vars

\* the unauthenticated navigation to /dashboard was redirected
C1_Witness ==
  /\ nav[1].pc = "returned"
  /\ nav[1].to.path = DashboardPath
  /\ nav[1].decisions = <<NextUrl(DashboardRedirect)>>

\* C2: every guard invocation calls next exactly once: none before the guard
\* returns from an await, exactly one when it has returned.
C2_NextExactlyOnce ==
  \A n \in DOMAIN nav :
    /\ nav[n].pc \in {"idle", "pending", "getUserInfo", "getRoutes", "generated",
                      "resetAllState"}
         => /\ nav[n].decisions = << >>
            /\ \A i \in 1..Len(nav[n].log) : nav[n].log[i] # "next"
    /\ nav[n].pc = "returned"
         => /\ Len(nav[n].decisions) = 1
            /\ Cardinality({i \in 1..Len(nav[n].log) : nav[n].log[i] = "next"}) = 1

\* a guard that went through route generation and the hidden-page check has
\* returned
C2_Witness ==
  /\ nav[1].pc = "returned"
  /\ nav[1].to.path = DetailPath
  /\ \E i \in 1..Len(nav[1].log) : nav[1].log[i] = "addRoute"
  /\ nav[1].decisions = <<Proceed>>

hasEvent(g, event) == \E i \in 1..Len(g.log) : g.log[i] = event

\* C3: when getUserInfo, generateRoutes or the registration of a route
\* fails, the guard calls resetAllState; whether that succeeds or fails, the
\* guard then redirects to /login and signals NProgress.done, and returns.
C3_FailureRecovery ==
  [][\A n \in DOMAIN nav :
       /\ nav[n].pc = "getUserInfo"
            => \/ nav'[n].pc \in {"getUserInfo", "resetAllState"}
               \/ /\ nav'[n].pc = "getRoutes" /\ userStore'.hasRoles
       /\ ( /\ nav[n].pc = "generated"
            /\ \/ ~nav[n].result.ok
               \/ \E i \in 1..Len(nav[n].result.routes) :
                    ~canAddRoute(nav[n].result.routes[i])
            /\ nav'[n] # nav[n] )
            => nav'[n].pc = "resetAllState"
       /\ (nav[n].pc # "resetAllState" /\ nav'[n].pc = "resetAllState")
            => /\ nav'[n].log = IF nav[n].pc = "generated" /\ nav[n].result.ok
                                   THEN nav[n].log \o <<"addRoute", "resetAllState">>
                                   ELSE Append(nav[n].log, "resetAllState")
               /\ nav'[n].decisions = << >>
       /\ (nav[n].pc = "resetAllState" /\ nav'[n] # nav[n])
            => /\ nav'[n].pc = "returned"
               /\ nav'[n].decisions = <<NextUrl(LoginPath)>>
               /\ nav'[n].log = nav[n].log \o <<"next", "NProgress.done">>
    ]_vars

\* the guard recovered from a failure although the cleanup failed too: the
\* session is still logged in
C3_Witness ==
  /\ nav[1].pc = "returned"
  /\ hasEvent(nav[1], "resetAllState")
  /\ hasEvent(nav[1], "addRoute")
  /\ userStore.loggedIn
  /\ nav[1].decisions = <<NextUrl(LoginPath)>>

\* C4: every navigation attempt settles: the chain of redirects the guard
\* issues for it ends, whatever the collaborators answer.
C4_EveryNavigationSettles == (nav[1].pc = "pending") ~> (nav[1].pc = "idle")

isRootRedirectStep(n) ==
  /\ Enters(n)
  /\ userStore.loggedIn
  /\ permissionStore.isDynamicRoutesGenerated
  /\ nav[n].to.path = Root

C6_UnmatchedToNotFound ==
  [][\A n \in DOMAIN nav :
       ( /\ Enters(n)
         /\ userStore.loggedIn
         /\ permissionStore.isDynamicRoutesGenerated
         /\ nav[n].to.path # Root
         /\ ~nav[n].to.matched )
       => /\ nav'[n].pc = "returned"
          /\ nav'[n].decisions = <<NextUrl(NotFoundPath)>>
          /\ ~hasEvent(nav'[n], "resetAllState")
    ]_vars

\* the navigation to the unregistered /dashboard was sent to /404
C6_Witness ==
  /\ nav[1].pc = "returned"
  /\ nav[1].to.path = DashboardPath
  /\ nav[1].decisions = <<NextUrl(NotFoundPath)>>

\* the records the router holds for a top-level route
recordsOf(route) == flattenRecords(<<route>>, Empty, Empty, {}, 0)

StartLog == <<"NProgress.start">>

\* C7: an authenticated guard invocation that finds the generation flag
\* false fetches the user info only if no roles are loaded, then generates
\* the routes, then registers every route returned; after that it
\* re-dispatches the unchanged destination with replace if the destination
\* is / or matched no route, and goes on with the remaining checks otherwise.
C7_GenerationSequence ==
  [][\A n \in DOMAIN nav :
       /\ ( /\ Enters(n)
            /\ userStore.loggedIn
            /\ nav[n].to.path # LoginPath
            /\ ~permissionStore.isDynamicRoutesGenerated )
          => /\ nav'[n].decisions = << >>
             /\ IF userStore.hasRoles
                  THEN /\ nav'[n].pc = "getRoutes"
                       /\ nav'[n].log = StartLog \o <<"generateRoutes">>
                  ELSE /\ nav'[n].pc = "getUserInfo"
                       /\ nav'[n].log = StartLog \o <<"getUserInfo">>
       /\ (nav[n].pc = "getUserInfo" /\ nav'[n].pc = "getRoutes")
          => nav'[n].log = StartLog \o <<"getUserInfo", "generateRoutes">>
       /\ ( /\ nav[n].pc = "generated"
            /\ nav[n].result.ok
            /\ \A i \in 1..Len(nav[n].result.routes) : canAddRoute(nav[n].result.routes[i])
            /\ nav'[n] # nav[n] )
          => LET to == nav[n].to
                 d == nav'[n].decisions
             IN /\ \A i \in 1..Len(nav[n].result.routes) :
                     recordsOf(nav[n].result.routes[i]) \subseteq routerRecords'
                /\ nav'[n].pc = "returned"
                /\ nav'[n].log = nav[n].log \o <<"addRoute", "next">>
                /\ nav[n].log \in {StartLog \o <<"generateRoutes">>,
                                   StartLog \o <<"getUserInfo", "generateRoutes">>}
                /\ Len(d) = 1
                /\ IF to.path = Root \/ ~to.matched
                     THEN d[1] = [kind |-> "location", path |-> to.path, name |-> to.name,
                                  query |-> to.query, replace |-> TRUE]
                     ELSE \/ d[1] = Proceed
                          \/ /\ d[1].kind = "location"
                             /\ d[1].path = to.path
                             /\ d[1].query.from # Empty
                             /\ ~d[1].replace
    ]_vars

\* the unregistered /dashboard was re-dispatched after the routes were
\* generated and registered
C7_Witness ==
  /\ nav[1].pc = "returned"
  /\ nav[1].log = StartLog \o <<"getUserInfo", "generateRoutes", "addRoute", "next">>
  /\ nav[1].to.path = DashboardPath
  /\ nav[1].decisions[1].kind = "location"
  /\ nav[1].decisions[1].replace
  /\ SysUserPath \in {r.path : r \in routerRecords}

\* C8: between two calls of resetRouter at most one guard invocation starts
\* generateRoutes.
C8_GenerationAtMostOnce == generations <= 1

\* C9: when MenuAPI.getRoutes() fails, generateRoutes throws that very
\* error, leaves the generation flag false and leaves the route list, the
\* side-menu list and the route map as they are.
C9_GenerateRoutesFailure ==
  [][\A n \in DOMAIN nav :
       (nav[n].pc = "getRoutes" /\ nav'[n].pc = "generated" /\ ~nav'[n].result.ok)
       => /\ nav'[n].result.cause \in Errors
          /\ nav'[n].result.error = nav'[n].result.cause
          /\ ~permissionStore'.isDynamicRoutesGenerated
          /\ permissionStore'.routes = permissionStore.routes
          /\ permissionStore'.mixLayoutSideMenus = permissionStore.mixLayoutSideMenus
          /\ permissionStore'.routeMap = permissionStore.routeMap
    ]_vars

\* generateRoutes has failed in a store that holds generated routes, side
\* menus and a route map
C9_Witness ==
  \E n \in DOMAIN nav :
    /\ nav[n].pc = "generated"
    /\ ~nav[n].result.ok
    /\ nav[n].result.error = "E_invalid"
    /\ ~permissionStore.isDynamicRoutesGenerated
    /\ Len(permissionStore.routes) > Len(constantRoutes)
    /\ permissionStore.mixLayoutSideMenus # << >>
    /\ permissionStore.routeMap.firstAccessibleRoute # Null

StaticRecords == flattenRecords(constantRoutes, Empty, Empty, {}, 0)

\* C10: resetRouter leaves the route list equal to the static routes, the
\* side-menu list empty, the generation flag false and the route map empty;
\* a second call changes neither the store nor the router; a call with only
\* the static routes registered removes nothing from the router.
C10_ResetRouter ==
  [][ResetRouter =>
       /\ permissionStore'.routes = constantRoutes
       /\ permissionStore'.mixLayoutSideMenus = << >>
       /\ ~permissionStore'.isDynamicRoutesGenerated
       /\ permissionStore'.routeMap.pathToRoute = EmptyMap
       /\ permissionStore'.routeMap.pathToParentMenu = EmptyMap
       /\ permissionStore'.routeMap.firstAccessibleRoute = Null
       /\ permissionStore'.routeMap.visibleMenuPaths = {}
       /\ resetRouterStore(permissionStore') = permissionStore'
       /\ removeDynamicRoutes(routerRecords', permissionStore'.routes) = routerRecords'
       /\ permissionStore.routes = constantRoutes
            => permissionStore' = permissionStore /\ routerRecords' = routerRecords
       /\ routerRecords = StaticRecords => routerRecords' = routerRecords
       /\ \A r \in routerRecords \ routerRecords' :
            r.anc \cap ({permissionStore.routes[i].name : i \in 1..Len(permissionStore.routes)}
                          \ constantRouteNames) # {}
    ]_vars

\* resetRouter has run on a store that held generated routes and side menus:
\* the store is reset and the registered dynamic routes are gone
C10_Witness ==
  /\ permissionStore.routes = constantRoutes
  /\ routerRecords = StaticRecords
  /\ currentRoute.path = SysUserPath
  /\ ~userStore.loggedIn
  /\ generations = 0

\* a step in which resetRouter runs: in the guard's catch block (through
\* resetAllState) or at logout
resetRouterCalled ==
  /\ ResetRouter
  /\ \/ \E n \in DOMAIN nav : nav[n].pc = "resetAllState" /\ nav'[n].pc = "returned"
     \/ nav' = nav /\ userStore.loggedIn /\ ~userStore'.loggedIn

\* C11: after resetRouter the router holds no route but the static ones:
\* every dynamic route registered since the previous reset has been removed.
C11_ResetRemovesDynamicRoutes ==
  [][resetRouterCalled => routerRecords' \subseteq StaticRecords]_vars

\* C12: the stored route map is the map buildRouteMap makes of the stored
\* route list.
C12_MapOfStoredRoutes ==
  permissionStore.routeMap = buildRouteMap(permissionStore.routes)

(***************************************************************************)
(* The route map and the route list it is built from                       *)
(***************************************************************************)
\* the nodes of a route list, each with its full path and its proper
\* ancestors, outermost first
RECURSIVE nodesOf(_, _, _)
nodesOf(routes, parentPath, ancestors) ==
  UNION {LET route == routes[i]
             fullPath == buildFullPath(route.path, parentPath)
         IN {[node |-> route, fullPath |-> fullPath, ancestors |-> ancestors]}
              \cup nodesOf(route.children, fullPath,
                           Append(ancestors, [fullPath |-> fullPath, hidden |-> route.hidden]))
         : i \in 1..Len(routes)}

RECURSIVE countNodes(_)
countNodes(routes) ==
  IF routes = << >> THEN 0
  ELSE 1 + countNodes(Head(routes).children) + countNodes(Tail(routes))

\* no two nodes of the list have the same full path
distinctFullPaths(routes) ==
  Cardinality({n.fullPath : n \in nodesOf(routes, Empty, << >>)}) = countNodes(routes)

\* the part of the stored list that generateRoutes appended to the static routes
dynamicRoutesOf(st) ==
  IF Len(st.routes) > Len(constantRoutes)
    THEN SubSeq(st.routes, Len(constantRoutes) + 1, Len(st.routes))
    ELSE << >>

\* a node with a component and a path segment that is neither "/" nor empty
isLeafRoute(node) ==
  node.component # NoComponent /\ node.path # Root /\ node.path # Empty

\* C13: the search returns a non-hidden leaf whenever the tree has one, and
\* a hidden leaf only when the tree has no non-hidden leaf.  (A tree "has"
\* a non-hidden leaf when a childless non-hidden node qualifies; what is
\* returned counts as a leaf when it qualifies, with or without children.)
C13_PrefersNonHiddenLeaf ==
  LET tree == dynamicRoutesOf(permissionStore)
      nodes == nodesOf(tree, Empty, << >>)
      qualifying == {n \in nodes : isLeafRoute(n.node)}
      nonHiddenLeaves == {n \in qualifying : ~n.node.hidden /\ n.node.children = << >>}
      found == findFirstAccessibleRoute(tree)
  IN distinctFullPaths(tree) =>
       /\ nonHiddenLeaves # {} =>
            /\ found # Null
            /\ \E n \in qualifying : ~n.node.hidden /\ n.fullPath = found[1].path
       /\ (found # Null /\ \E n \in qualifying : n.node.hidden /\ n.fullPath = found[1].path)
            => nonHiddenLeaves = {}

\* C14: the path of the first accessible route the store exposes is the
\* full path of the first qualifying leaf.
C14_FirstAccessiblePathIsFullPath ==
  LET first == getFirstAccessibleRoute(permissionStore)
      found == findFirstAccessibleRoute(permissionStore.routes)
  IN first # Null => found # Null /\ first[1].path = found[1].path

storedNodes == nodesOf(permissionStore.routes, Empty, << >>)

isHiddenLeaf(n) == n.node.hidden /\ n.node.children = << >>

\* a node the traversal records as a visible menu entry
isVisibleMenuEntry(n) == ~n.node.hidden /\ isLeafRoute(n.node)

\* C15 as stated: the full path of a hidden leaf is never a member of
\* visibleMenuPaths.
C15_HiddenLeafPathNeverVisible ==
  \A n \in storedNodes :
    isHiddenLeaf(n) => n.fullPath \notin permissionStore.routeMap.visibleMenuPaths

\* C15 as amended: the full path of a hidden leaf is a member of
\* visibleMenuPaths only if a visible menu entry has the same full path; in
\* a list with pairwise distinct full paths it is never a member.
C15_HiddenLeafNeverAdded ==
  /\ \A n \in storedNodes :
       (isHiddenLeaf(n) /\ n.fullPath \in permissionStore.routeMap.visibleMenuPaths)
         => \E m \in storedNodes : isVisibleMenuEntry(m) /\ m.fullPath = n.fullPath
  /\ distinctFullPaths(permissionStore.routes)
       => \A n \in storedNodes :
            isHiddenLeaf(n) => n.fullPath \notin permissionStore.routeMap.visibleMenuPaths

\* a hidden leaf with a component is left out of a non-empty visibleMenuPaths
C15_Witness ==
  /\ lastCall.op = "generateRoutes"
  /\ distinctFullPaths(permissionStore.routes)
  /\ permissionStore.routeMap.visibleMenuPaths # {}
  /\ \E n \in nodesOf(dynamicRoutesOf(permissionStore), Empty, << >>) :
       /\ isHiddenLeaf(n) /\ isLeafRoute(n.node)
       /\ n.fullPath \notin permissionStore.routeMap.visibleMenuPaths

\* positions of the non-hidden proper ancestors of a node
visibleAncestors(n) == {i \in 1..Len(n.ancestors) : ~n.ancestors[i].hidden}

\* C16: in a list with pairwise distinct full paths, pathToParentMenu maps a
\* node's full path to the full path of its nearest non-hidden proper
\* ancestor, and has no entry for a node without one.
C16_ParentMenuIsNearestVisibleAncestor ==
  distinctFullPaths(permissionStore.routes) =>
    /\ \A n \in storedNodes :
         LET visible == visibleAncestors(n)
             nearest == CHOOSE i \in visible : \A j \in visible : j <= i
         IN IF visible # {}
              THEN /\ n.fullPath \in DOMAIN permissionStore.routeMap.pathToParentMenu
                   /\ permissionStore.routeMap.pathToParentMenu[n.fullPath]
                        = n.ancestors[nearest].fullPath
              ELSE n.fullPath \notin DOMAIN permissionStore.routeMap.pathToParentMenu
    /\ DOMAIN permissionStore.routeMap.pathToParentMenu
         \subseteq {n.fullPath : n \in storedNodes}

\* a node below a hidden node below a visible menu is mapped to that menu
C16_Witness ==
  /\ distinctFullPaths(permissionStore.routes)
  /\ \E n \in storedNodes :
       /\ Len(n.ancestors) = 2
       /\ ~n.ancestors[1].hidden /\ n.ancestors[2].hidden
       /\ n.ancestors[1].fullPath = TopP
       /\ n.fullPath = TopP \o Root \o SegA \o Root \o SegC
       /\ MapGet(permissionStore.routeMap.pathToParentMenu, n.fullPath, Empty) = TopP

hasSlashRun(s) == \E i \in 1..(Len(s) - 1) : s[i] = "/" /\ s[i + 1] = "/"

\* C17: no full path buildFullPath returns holds two consecutive "/".
C17_NoSlashRun ==
  \A fullPath \in DOMAIN permissionStore.routeMap.pathToRoute : ~hasSlashRun(fullPath)

tokensOf(value) ==
  IF value.isString THEN {value.token}
  ELSE {value.tokens[i] : i \in 1..Len(value.tokens)}

\* C19: hasAuth is true in button mode whenever the roles contain the root
\* role; in every other case it is true iff some requested token is in the
\* permissions (button mode) or in the roles (role mode).
C19_HasAuth ==
  lastCall.op = "hasAuth" =>
    LET userInfo == userStore.userInfo
        bypass == lastCall.type = "button" /\ ROLE_ROOT \in userInfo.roles
        list == IF lastCall.type = "button" THEN userInfo.perms ELSE userInfo.roles
    IN /\ bypass => lastCall.result
       /\ ~bypass => (lastCall.result <=> tokensOf(lastCall.value) \cap list # {})
       /\ (~bypass /\ tokensOf(lastCall.value) = {}) => ~lastCall.result
       /\ (lastCall.type = "role" /\ tokensOf(lastCall.value) \cap userInfo.roles = {})
            => ~lastCall.result

\* the root role grants a button permission that the permission list lacks
C19_Witness ==
  /\ lastCall.op = "hasAuth"
  /\ lastCall.type = "button"
  /\ lastCall.value = AuthString("user:delete")
  /\ ROLE_ROOT \in userStore.userInfo.roles
  /\ "user:delete" \notin userStore.userInfo.perms
  /\ lastCall.result

\* the component the normalizer gives a node
expectedComponent(ref, isTopLevel) ==
  IF ref = NoComponent THEN NoComponent
  ELSE IF ref = LayoutRef THEN (IF isTopLevel THEN LayoutView ELSE NoComponent)
  ELSE IF ref \in modules THEN "views/" \o ref
  ELSE NotFoundView

\* out has the shape and the order of raw, and the expected components
RECURSIVE normalizedAs(_, _, _)
normalizedAs(raw, out, isTopLevel) ==
  /\ Len(out) = Len(raw)
  /\ \A i \in 1..Len(raw) :
       /\ out[i].path = raw[i].path
       /\ out[i].name = raw[i].name
       /\ out[i].hidden = raw[i].hidden
       /\ out[i].activeMenu = raw[i].activeMenu
       /\ out[i].component = expectedComponent(raw[i].component, isTopLevel)
       /\ normalizedAs(raw[i].children, out[i].children, FALSE)

\* C20: the normalizer keeps the shape and the sibling order of the raw tree
\* and gives each node the expected component: absent, the layout wrapper,
\* the registered view or the not-found view.
C20_Normalizer ==
  (lastCall.op = "generateRoutes" /\ permissionStore.isDynamicRoutesGenerated) =>
    /\ normalizedAs(lastCall.data, dynamicRoutesOf(permissionStore), TRUE)
    /\ normalizedAs(lastCall.data, transformRoutes(lastCall.data, TRUE), TRUE)

\* a top-level layout whose child references the layout sentinel and has a
\* child of its own, next to a view the registry lacks
C20_Witness ==
  /\ lastCall.op = "generateRoutes"
  /\ permissionStore.isDynamicRoutesGenerated
  /\ Len(lastCall.data) = 2
  /\ lastCall.data[1].component = LayoutRef
  /\ Len(lastCall.data[1].children) = 2
  /\ lastCall.data[1].children[1].component = LayoutRef
  /\ lastCall.data[1].children[1].children # << >>
  /\ LET routes == dynamicRoutesOf(permissionStore)
     IN /\ routes[1].component = LayoutView
        /\ routes[1].children[1].component = NoComponent
        /\ routes[1].children[1].children[1].component = "views/sys/user"
        /\ routes[2].component = "views/sys/user"

\* the params object of a meta, or no keys when there is none
paramsOf(meta) == getProp(meta, ParamsKey)

\* C21: every key of meta.params with the prefix meta_ is moved to meta under
\* the stripped key and is gone from params; the other keys stay in params
\* with their values.
C21_MetaParamsPromoted ==
  (lastCall.op = "transformRoutes" /\ paramsOf(lastCall.meta).kind = "object") =>
    LET raw == paramsOf(lastCall.meta)
        normalized == lastCall.metas.normalized
    IN \A i \in 1..Len(raw.props) :
         LET key == raw.props[i].key
             value == raw.props[i].value
         IN IF startsWith(key, MetaPrefix)
              THEN /\ getProp(normalized, replaceWithEmpty(key, MetaPrefix)) = value
                   /\ getProp(paramsOf(normalized), key) = Undefined
              ELSE getProp(paramsOf(normalized), key) = value

\* C24: after the call the raw descriptor's meta, with its params, is what it
\* was before the call.
C24_InputNotMutated ==
  lastCall.op = "transformRoutes" => lastCall.metas.raw = lastCall.meta

\* C22: the automatic from value is none for a previous path that is empty,
\* / or /login; for a hidden previous location it is its from query value,
\* else its active-menu override, else the parent-menu path the map holds
\* for its path (none without an entry); otherwise it is the previous path.
C22_AutoFromValue ==
  lastCall.op = "getAutoFromPath" =>
    LET from == lastCall.from
        value == lastCall.result
        pathToParentMenu == permissionStore.routeMap.pathToParentMenu
    IN /\ from.path \in {Empty, Root, LoginPath} => value = Empty
       /\ from.path \notin {Empty, Root, LoginPath} =>
            /\ (from.hidden /\ from.query.from # Empty) => value = from.query.from
            /\ (from.hidden /\ from.query.from = Empty /\ from.activeMenu # Empty)
                 => value = from.activeMenu
            /\ (from.hidden /\ from.query.from = Empty /\ from.activeMenu = Empty)
                 => value = (IF from.path \in DOMAIN pathToParentMenu
                               THEN pathToParentMenu[from.path] ELSE Empty)
            /\ ~from.hidden => value = from.path

\* a hidden previous location with a from value and an override: the from
\* value wins; and one with neither, whose parent menu the map holds
C22_Witness ==
  /\ lastCall.op = "getAutoFromPath"
  /\ lastCall.from.path = DetailPath
  /\ lastCall.from.hidden
  /\ lastCall.from.query.from = SysUserPath
  /\ lastCall.from.activeMenu = DocPath
  /\ lastCall.result = SysUserPath
  /\ getParentMenuByPath(permissionStore, DetailPath) = SysPath

\* guard invocation n is about to run the check of the hidden destination
\* (permission.ts line 179): it starts with the routes generated, or resumes
\* after they were registered, for a matched destination other than / 
reachesHiddenCheck(n) ==
  /\ nav[n].to.path # Root
  /\ nav[n].to.matched
  /\ \/ /\ nav[n].pc = "pending"
        /\ userStore.loggedIn
        /\ nav[n].to.path # LoginPath
        /\ permissionStore.isDynamicRoutesGenerated
     \/ /\ nav[n].pc = "generated"
        /\ nav[n].result.ok
        /\ addRoutes(routerRecords, nav[n].result.routes).ok

\* the guard's latest decision adds a from value to the destination's query
isFromRedirect(g) ==
  /\ g.decisions # << >>
  /\ LET decision == g.decisions[Len(g.decisions)]
     IN /\ decision.kind = "location"
        /\ decision.query.from # g.to.query.from

\* C23: for a matched hidden destination without from and without override
\* whose computed from value is not none, the guard's only decision is the
\* redirect to the same destination with from added; the destination the
\* router then hands to the guard carries that from, and no other guard
\* invocation, this one included, issues a from redirect.
C23_FromRedirectOnce ==
  [][\A n \in DOMAIN nav :
       /\ Returns(n) =>
            LET to == nav[n].to
                fromPath == getAutoFromPath(nav[n].from, permissionStore)
            IN IF /\ reachesHiddenCheck(n)
                  /\ to.hidden
                  /\ to.query.from = Empty
                  /\ to.activeMenu = Empty
                  /\ fromPath # Empty
                 THEN nav'[n].decisions =
                        <<[kind |-> "location", path |-> to.path, name |-> to.name,
                           query |-> [to.query EXCEPT !.from = fromPath],
                           replace |-> FALSE]>>
                 ELSE ~isFromRedirect(nav'[n])
       /\ (nav[n].pc = "returned" /\ isFromRedirect(nav[n]) /\ nav'[n] # nav[n]) =>
            /\ nav'[n].pc = "pending"
            /\ nav'[n].to.path = nav[n].to.path
            /\ nav'[n].to.query = nav[n].decisions[Len(nav[n].decisions)].query
     ]_vars

\* the invocation for the redirected destination has returned: it let the
\* hidden page, which now carries the from value, proceed
C23_Witness ==
  \E n \in DOMAIN nav :
    /\ nav[n].pc = "returned"
    /\ nav[n].to.path = DetailPath
    /\ nav[n].to.hidden
    /\ nav[n].to.query.from = SysUserPath
    /\ nav[n].from.path = SysUserPath
    /\ nav[n].decisions = <<Proceed>>

\* no guard invocation is running, waiting or about to be called again
navigationsSettled == \A n \in DOMAIN nav : nav[n].pc \in {"idle", "done"}

\* C25: every start signal of a guard invocation is followed by a done
\* signal, from the guard or from the after-navigation hook: once the
\* navigation has settled, the progress indicator is done.
C25_ProgressDoneWhenSettled == navigationsSettled => ~progressStarted

\* a node that is not hidden, has a component, and whose full path is
\* neither empty nor "/"
isEffectiveMenuEntry(n) ==
  /\ ~n.node.hidden
  /\ n.node.component # NoComponent
  /\ n.fullPath # Empty
  /\ n.fullPath # Root

\* a node with a component whose full path is neither empty nor "/"
isEffectiveCandidate(n) ==
  /\ n.node.component # NoComponent
  /\ n.fullPath # Empty
  /\ n.fullPath # Root

\* C26: visibleMenuPaths is the set of the full paths of the nodes that are
\* not hidden, have a component, and whose full path is neither empty nor
\* "/"; a list that holds such a node outside every hidden subtree has a
\* first accessible route that is not hidden.
C26_EffectivePathDecides ==
  permissionStore.isDynamicRoutesGenerated =>
    /\ permissionStore.routeMap.visibleMenuPaths
         = {n.fullPath : n \in {m \in storedNodes : isEffectiveMenuEntry(m)}}
    /\ (\E n \in storedNodes :
          /\ isEffectiveCandidate(n)
          /\ ~n.node.hidden
          /\ \A i \in 1..Len(n.ancestors) : ~n.ancestors[i].hidden)
         => findFirstRoute(permissionStore.routes, FALSE, Empty) # Null

\* the node findFirstRoute stops at: Null or <<route>>
RECURSIVE selectedRoute(_, _, _)
selectedRoute(routes, includeHidden, parentPath) ==
  IF routes = << >> THEN Null
  ELSE
    LET route == Head(routes)
        rest == selectedRoute(Tail(routes), includeHidden, parentPath)
        currentPath == buildFullPath(route.path, parentPath)
        childRoute == IF Len(route.children) > 0
                        THEN selectedRoute(route.children, includeHidden, currentPath)
                        ELSE Null
    IN IF ~includeHidden /\ route.hidden THEN rest
       ELSE IF childRoute # Null THEN childRoute
       ELSE IF route.component # NoComponent /\ route.path # Root /\ route.path # Empty
         THEN <<route>>
       ELSE rest

\* the node the two-pass search selects
selectedAccessibleRoute(routes) ==
  LET nonHiddenResult == selectedRoute(routes, FALSE, Empty)
  IN IF nonHiddenResult # Null THEN nonHiddenResult
     ELSE selectedRoute(routes, TRUE, Empty)

\* C27: firstAccessibleRoute is null iff the search finds no node, and
\* otherwise it has the name, the component and the hidden flag of the node
\* the search selected.
C27_FirstAccessibleIsSelectedNode ==
  permissionStore.isDynamicRoutesGenerated =>
    LET selected == selectedAccessibleRoute(permissionStore.routes)
        first == permissionStore.routeMap.firstAccessibleRoute
    IN /\ first = Null <=> findFirstAccessibleRoute(permissionStore.routes) = Null
       /\ first # Null =>
            /\ selected # Null
            /\ first[1].name = selected[1].name
            /\ first[1].component = selected[1].component
            /\ first[1].hidden = selected[1].hidden

\* C28: every value of pathToParentMenu is a member of visibleMenuPaths.
C28_ParentMenuIsVisibleEntry ==
  \A path \in DOMAIN permissionStore.routeMap.pathToParentMenu :
    permissionStore.routeMap.pathToParentMenu[path]
      \in permissionStore.routeMap.visibleMenuPaths

=============================================================================
